---- MODULE Spec2Model ----
(***************************************************************************)
(* Model of script/generateWithdrawProof.py: generateProof(artefactPath)   *)
(* runs the witness generator, then the prover (both with the blocking     *)
(* subprocess.call), then opens <artefactPath>/proof.json in text mode,    *)
(* keeps the lines longer than 25 characters, strips some characters from  *)
(* each, joins them with commas and prints the result.                     *)
(*                                                                         *)
(* Text is a sequence of one-character strings.  A file is its raw text    *)
(* (line terminators included) or NoFile.                                  *)
(***************************************************************************)
EXTENDS Integers, Sequences, FiniteSets, TLC

VARIABLES
    pc,                   \* position of the interpreter in generateProof
    calls,                \* commands handed to subprocess.call, in order
    witnessProc,          \* the witness generator's process
    proofProc,            \* the prover's process
    witnessStatus,        \* exit status of the witness generator's process
    proofStatus,          \* exit status of the prover's process
    witnessGenerateResp,  \* local of generateProof (line 9)
    proofGenerateResp,    \* local of generateProof (line 10)
    proofJson,            \* <artefactPath>/proof.json on disk
    file,                 \* the open file object: the lines not yet iterated
    respStr,              \* local of generateProof (line 12)
    stdout,               \* what this run has printed
    runs,                 \* number of invocations of the script so far
    history               \* per completed run: document opened, document left, output

vars == <<pc, calls, witnessProc, proofProc, witnessStatus, proofStatus,
          witnessGenerateResp, proofGenerateResp, proofJson, file, respStr,
          stdout, runs, history>>

-----------------------------------------------------------------------------
(* Characters *)

SP == " "
COMMA == ","
TAB == "\t"
QUOTE == "\""
CR == "\r"
LF == "\n"
DIGIT == "1"
BRACE == "{"

(* Values for what is absent *)
NoFile == [exists |-> FALSE, text |-> <<>>]      \* no such file
FileOf(text) == [exists |-> TRUE, text |-> text]
Closed == [open |-> FALSE, lines |-> <<>>]       \* no open file object
Opened(lines) == [open |-> TRUE, lines |-> lines]
Unbound == <<"Unbound">>                         \* respStr before line 12
NoStatus == <<>>                                 \* no exit status yet

-----------------------------------------------------------------------------
(* Bounds of the model *)

MaxLines == 2      \* lines of a generated proof document
MaxRuns == 2       \* invocations of the script

(* The threshold of line 16 *)
Threshold == 25

(* Exit statuses: success, failure, and the shell's "command not found" *)
ExitCodes == {0, 1, 127}

-----------------------------------------------------------------------------
(* Python's text handling *)

(* the k-th smallest element of a finite set of integers *)
Kth(K, k) == CHOOSE x \in K : Cardinality({y \in K : y <= x}) = k

(* the subsequence of s at the positions in K, in order *)
Pick(s, K) == [k \in 1..Cardinality(K) |-> s[Kth(K, k)]]

(* open() in text mode with the default newline=None, iterated by lines:   *)
(* "\n", "\r\n" and "\r" each end a line and each is handed to the program *)
(* as "\n"; a last line without terminator is handed over as it is.        *)
LineEnds(raw) ==
    {i \in 1..Len(raw) :
        \/ raw[i] = LF
        \/ raw[i] = CR /\ ~(i < Len(raw) /\ raw[i + 1] = LF)}

ReadLines(raw) ==
    LET E == LineEnds(raw)
        n == Cardinality(E)
        first(j) == IF j = 1 THEN 1 ELSE Kth(E, j - 1) + 1
        termLen(e) == IF raw[e] = LF /\ e > 1 /\ raw[e - 1] = CR THEN 2 ELSE 1
        line(j) == SubSeq(raw, first(j), Kth(E, j) - termLen(Kth(E, j))) \o <<LF>>
        rest == SubSeq(raw, first(n + 1), Len(raw))
    IN  [j \in 1..n |-> line(j)] \o (IF rest = <<>> THEN <<>> ELSE <<rest>>)

(* str.replace(c, "") for a one-character c *)
ReplaceChar(s, c) == SelectSeq(s, LAMBDA x : x # c)

(* str.replace("\r\n", ""): every occurrence goes (occurrences of "\r\n"   *)
(* cannot overlap)                                                         *)
ReplaceCRLF(s) ==
    Pick(s, {i \in 1..Len(s) :
                /\ ~(s[i] = CR /\ i < Len(s) /\ s[i + 1] = LF)
                /\ ~(s[i] = LF /\ i > 1 /\ s[i - 1] = CR)})

(* line 17: the chain of replaces applied to a line *)
(* variant: the last replace of the chain left out *)
CleanKeepsQuote(item) ==
    ReplaceChar(ReplaceCRLF(ReplaceChar(ReplaceChar(item, SP), COMMA)), TAB)

Clean(item) ==
    ReplaceChar(ReplaceChar(ReplaceCRLF(ReplaceChar(ReplaceChar(item, SP), COMMA)), TAB), QUOTE)

(* line 16: the filter *)
(* variant: >= in place of > *)
QualifiesInclusive(item) == Len(item) >= Threshold

Qualifies(item) == Len(item) > Threshold

-----------------------------------------------------------------------------
(* Proof documents the model draws from *)

PadDigits(n) == [i \in 1..n |-> DIGIT]

TailChars == {DIGIT, SP, COMMA, TAB, QUOTE}
Tails == {<<>>} \cup {<<c>> : c \in TailChars}
Eols == {<<>>, <<LF>>, <<CR, LF>>, <<CR>>}

(* Lines around the threshold: 24 digits, at most one more character, and  *)
(* a line terminator or none.                                              *)
Lines == {PadDigits(Threshold - 1) \o t \o e : t \in Tails, e \in Eols}

RECURSIVE DocsOver(_, _)
DocsOver(lines, k) ==
    IF k = 0 THEN {<<>>}
    ELSE LET D == DocsOver(lines, k - 1)
         IN  D \cup {d \o l : d \in D, l \in lines}

Docs == DocsOver(Lines, MaxLines)

(* Lines in the prover's layout: a structural line, an array element of 25 *)
(* digits (quoted, indented, followed by a comma), a short element.        *)
StructLine == <<BRACE, LF>>
ElementLine == <<SP, SP, SP, SP, QUOTE>> \o PadDigits(Threshold) \o <<QUOTE, COMMA, LF>>
ElementLineCRLF == <<TAB, QUOTE>> \o PadDigits(Threshold) \o <<QUOTE, COMMA, CR, LF>>
ShortLine == <<SP, QUOTE, DIGIT, QUOTE, LF>>

SampleLines == {StructLine, ElementLine, ShortLine}
SampleDocs == DocsOver(SampleLines, MaxLines)

(* What the prover may leave in proof.json when it writes it *)
ProverOutputs == {StructLine \o ElementLine \o ShortLine, ElementLineCRLF \o ElementLine}

-----------------------------------------------------------------------------
(* Initial states *)

Locals ==
    /\ pc = "call_witness"
    /\ calls = <<>>
    /\ witnessProc = "not_started"
    /\ proofProc = "not_started"
    /\ witnessStatus = NoStatus
    /\ proofStatus = NoStatus
    /\ witnessGenerateResp = NoStatus
    /\ proofGenerateResp = NoStatus
    /\ file = Closed
    /\ respStr = Unbound
    /\ stdout = <<>>

Init ==
    /\ Locals
    /\ proofJson \in {NoFile} \cup {FileOf(d) : d \in SampleDocs}
    /\ runs = 1
    /\ history = <<>>

-----------------------------------------------------------------------------
(* generateProof, lines 4-10: the two external commands *)

(* lines 4, 5, 9: build both command strings, start the witness generator *)
CallWitness ==
    /\ pc = "call_witness"
    /\ pc' = "wait_witness"
    /\ calls' = Append(calls, "generateWitnessCmd")
    /\ witnessProc' = "running"
    /\ UNCHANGED <<proofProc, witnessStatus, proofStatus, witnessGenerateResp,
                   proofGenerateResp, proofJson, file, respStr, stdout, runs, history>>

(* the witness generator's process exits (the shell's status if it is absent) *)
WitnessExit ==
    /\ witnessProc = "running"
    /\ \E rc \in ExitCodes : witnessStatus' = <<rc>>
    /\ witnessProc' = "exited"
    /\ UNCHANGED <<pc, calls, proofProc, proofStatus, witnessGenerateResp,
                   proofGenerateResp, proofJson, file, respStr, stdout, runs, history>>

(* line 9: subprocess.call returns the exit status *)
(* variant: returns without waiting for the process (Popen without wait) *)
WitnessReturnNoWait ==
    /\ pc = "wait_witness"
    /\ witnessGenerateResp' = witnessStatus
    /\ pc' = "call_prove"
    /\ UNCHANGED <<calls, witnessProc, proofProc, witnessStatus, proofStatus,
                   proofGenerateResp, proofJson, file, respStr, stdout, runs, history>>

(* variant: stops the run on a non-zero status *)
WitnessReturnChecked ==
    /\ pc = "wait_witness"
    /\ witnessProc = "exited"
    /\ witnessGenerateResp' = witnessStatus
    /\ pc' = IF witnessStatus = <<0>> THEN "call_prove" ELSE "fault"
    /\ UNCHANGED <<calls, witnessProc, proofProc, witnessStatus, proofStatus,
                   proofGenerateResp, proofJson, file, respStr, stdout, runs, history>>

WitnessReturn ==
    /\ pc = "wait_witness"
    /\ witnessProc = "exited"
    /\ witnessGenerateResp' = witnessStatus
    /\ pc' = "call_prove"
    /\ UNCHANGED <<calls, witnessProc, proofProc, witnessStatus, proofStatus,
                   proofGenerateResp, proofJson, file, respStr, stdout, runs, history>>

(* line 10: start the prover *)
CallProve ==
    /\ pc = "call_prove"
    /\ pc' = "wait_prove"
    /\ calls' = Append(calls, "generateProofCmd")
    /\ proofProc' = "running"
    /\ UNCHANGED <<witnessProc, witnessStatus, proofStatus, witnessGenerateResp,
                   proofGenerateResp, proofJson, file, respStr, stdout, runs, history>>

(* the prover's process exits, having written proof.json or not *)
ProveExit ==
    /\ proofProc = "running"
    /\ \E rc \in ExitCodes : proofStatus' = <<rc>>
    /\ proofProc' = "exited"
    /\ \/ proofJson' = proofJson
       \/ \E d \in ProverOutputs : proofJson' = FileOf(d)
    /\ UNCHANGED <<pc, calls, witnessProc, witnessStatus, witnessGenerateResp,
                   proofGenerateResp, file, respStr, stdout, runs, history>>

(* line 10: subprocess.call returns the exit status *)
(* variant: returns without waiting for the process *)
ProveReturnNoWait ==
    /\ pc = "wait_prove"
    /\ proofGenerateResp' = proofStatus
    /\ pc' = "init_resp"
    /\ UNCHANGED <<calls, witnessProc, proofProc, witnessStatus, proofStatus,
                   witnessGenerateResp, proofJson, file, respStr, stdout, runs, history>>

ProveReturn ==
    /\ pc = "wait_prove"
    /\ proofProc = "exited"
    /\ proofGenerateResp' = proofStatus
    /\ pc' = "init_resp"
    /\ UNCHANGED <<calls, witnessProc, proofProc, witnessStatus, proofStatus,
                   witnessGenerateResp, proofJson, file, respStr, stdout, runs, history>>

-----------------------------------------------------------------------------
(* generateProof, lines 12-19: the flattener *)

(* line 12 *)
(* variant: respStr kept from the previous run instead of reset *)
InitRespStrStale ==
    /\ pc = "init_resp"
    /\ respStr' = IF history = <<>> THEN <<>> ELSE history[Len(history)].str
    /\ pc' = "open"
    /\ UNCHANGED <<calls, witnessProc, proofProc, witnessStatus, proofStatus,
                   witnessGenerateResp, proofGenerateResp, proofJson, file, stdout,
                   runs, history>>

InitRespStr ==
    /\ pc = "init_resp"
    /\ respStr' = <<>>
    /\ pc' = "open"
    /\ UNCHANGED <<calls, witnessProc, proofProc, witnessStatus, proofStatus,
                   witnessGenerateResp, proofGenerateResp, proofJson, file, stdout,
                   runs, history>>

(* lines 13, 14: open proof.json; FileNotFoundError is not caught *)
(* variant: a missing file read as an empty one *)
OpenProofMissingAsEmpty ==
    /\ pc = "open"
    /\ file' = Opened(IF proofJson = NoFile THEN <<>> ELSE ReadLines(proofJson.text))
    /\ pc' = "iterate"
    /\ UNCHANGED <<calls, witnessProc, proofProc, witnessStatus, proofStatus,
                   witnessGenerateResp, proofGenerateResp, proofJson, respStr, stdout,
                   runs, history>>

OpenProof ==
    /\ pc = "open"
    /\ \/ /\ proofJson # NoFile
          /\ file' = Opened(ReadLines(proofJson.text))
          /\ pc' = "iterate"
       \/ /\ proofJson = NoFile
          /\ file' = Closed
          /\ pc' = "fault"
    /\ UNCHANGED <<calls, witnessProc, proofProc, witnessStatus, proofStatus,
                   witnessGenerateResp, proofGenerateResp, proofJson, respStr, stdout,
                   runs, history>>

(* lines 15-17: one iteration of the loop over the lines *)
ReadItem ==
    /\ pc = "iterate"
    /\ file.lines # <<>>
    /\ LET item == Head(file.lines)
       IN  respStr' = IF Qualifies(item)
                      THEN respStr \o Clean(item) \o <<COMMA>>
                      ELSE respStr
    /\ file' = Opened(Tail(file.lines))
    /\ UNCHANGED <<pc, calls, witnessProc, proofProc, witnessStatus, proofStatus,
                   witnessGenerateResp, proofGenerateResp, proofJson, stdout, runs,
                   history>>

(* end of the with block: the iterator is exhausted, the file is closed *)
CloseFile ==
    /\ pc = "iterate"
    /\ file.lines = <<>>
    /\ file' = Closed
    /\ pc' = "print"
    /\ UNCHANGED <<calls, witnessProc, proofProc, witnessStatus, proofStatus,
                   witnessGenerateResp, proofGenerateResp, proofJson, respStr, stdout,
                   runs, history>>

(* line 19: print(respStr.replace(chr(32), "")), then the script ends *)
PrintResp ==
    /\ pc = "print"
    /\ stdout' = stdout \o ReplaceChar(respStr, SP) \o <<LF>>
    /\ history' = Append(history, [doc |-> proofJson, str |-> respStr,
                                   out |-> stdout \o ReplaceChar(respStr, SP) \o <<LF>>])
    /\ pc' = "done"
    /\ UNCHANGED <<calls, witnessProc, proofProc, witnessStatus, proofStatus,
                   witnessGenerateResp, proofGenerateResp, proofJson, file, respStr, runs>>

(* lines 21-28: the script is invoked again, in a new process *)
Main ==
    /\ pc \in {"done", "fault"}
    /\ runs < MaxRuns
    /\ runs' = runs + 1
    /\ pc' = "call_witness"
    /\ calls' = <<>>
    /\ witnessProc' = "not_started"
    /\ proofProc' = "not_started"
    /\ witnessStatus' = NoStatus
    /\ proofStatus' = NoStatus
    /\ witnessGenerateResp' = NoStatus
    /\ proofGenerateResp' = NoStatus
    /\ file' = Closed
    /\ respStr' = Unbound
    /\ stdout' = <<>>
    /\ UNCHANGED <<proofJson, history>>

-----------------------------------------------------------------------------
(* Specifications *)

Next ==
    \/ CallWitness
    \/ WitnessExit
    \/ WitnessReturn
    \/ CallProve
    \/ ProveExit
    \/ ProveReturn
    \/ InitRespStr
    \/ OpenProof
    \/ ReadItem
    \/ CloseFile
    \/ PrintResp
    \/ Main

Spec == Init /\ [][Next]_vars

(* The flattener alone, entered after both commands have returned, over    *)
(* every generated proof document.                                         *)
FlatInit ==
    /\ pc = "init_resp"
    /\ calls = <<"generateWitnessCmd", "generateProofCmd">>
    /\ witnessProc = "exited"
    /\ proofProc = "exited"
    /\ witnessStatus = <<0>>
    /\ proofStatus = <<0>>
    /\ witnessGenerateResp = <<0>>
    /\ proofGenerateResp = <<0>>
    /\ proofJson \in {NoFile} \cup {FileOf(d) : d \in Docs \cup SampleDocs \cup ProverOutputs}
    /\ file = Closed
    /\ respStr = Unbound
    /\ stdout = <<>>
    /\ runs = 1
    /\ history = <<>>

FlatNext ==
    \/ InitRespStr
    \/ OpenProof
    \/ ReadItem
    \/ CloseFile
    \/ PrintResp

FlatSpec == FlatInit /\ [][FlatNext]_vars

-----------------------------------------------------------------------------
(* Notions the properties are stated in *)

WitnessCmd == "generateWitnessCmd"
ProveCmd == "generateProofCmd"

(* the string handed to print: what was printed, without print's newline *)
Printed == SubSeq(stdout, 1, Len(stdout) - 1)

Count(s, c) == Cardinality({i \in 1..Len(s) : s[i] = c})

(* the lines of the document on disk, as the program reads them *)
Items == ReadLines(proofJson.text)

(* the lines already iterated (the file object holds the others) *)
Consumed == SubSeq(Items, 1, Len(Items) - Len(file.lines))

LongItems == SelectSeq(Items, LAMBDA it : Len(it) > Threshold)

(* a line without the characters line 17 removes from it *)
Stripped == {SP, COMMA, TAB, QUOTE}
Token(item) == SelectSeq(item, LAMBDA c : c \notin Stripped)

RECURSIVE JoinTrailing(_)
JoinTrailing(tokens) ==
    IF tokens = <<>> THEN <<>>
    ELSE Head(tokens) \o <<COMMA>> \o JoinTrailing(Tail(tokens))

(* the characters of a line, its terminator not counted *)
LineChars(item) ==
    IF item # <<>> /\ item[Len(item)] = LF THEN Len(item) - 1 ELSE Len(item)

-----------------------------------------------------------------------------
(* C1: the witness-generation command is started first, and its process    *)
(* has exited before the proving command is started; the two processes     *)
(* never run at the same time.                                             *)
C1_WitnessBeforeProve ==
    /\ proofProc # "not_started" => witnessProc = "exited"
    /\ ~(witnessProc = "running" /\ proofProc = "running")
    /\ calls \in {<<>>, <<WitnessCmd>>, <<WitnessCmd, ProveCmd>>}
    /\ (calls # <<>>) <=> (witnessProc # "not_started")
    /\ (Len(calls) = 2) <=> (proofProc # "not_started")

C1_Witness ==
    /\ proofProc = "running"
    /\ witnessProc = "exited"
    /\ calls = <<WitnessCmd, ProveCmd>>

(* C2: whatever the exit statuses of the two commands, the step after the  *)
(* witness command is the proving command and the step after the proving   *)
(* command leads to opening proof.json: the statuses never change the      *)
(* control flow, and never block it.                                       *)
C2_StatusIgnored ==
    /\ [](/\ (pc = "wait_witness" /\ witnessProc = "exited") => ENABLED WitnessReturn
          /\ pc = "call_prove" => ENABLED CallProve
          /\ (pc = "wait_prove" /\ proofProc = "exited") => ENABLED ProveReturn
          /\ pc = "init_resp" => ENABLED InitRespStr
          /\ pc = "open" => (witnessGenerateResp # NoStatus /\ proofGenerateResp # NoStatus))
    /\ [][/\ (pc = "wait_witness" /\ pc' # pc) => pc' = "call_prove"
          /\ (pc = "call_prove" /\ pc' # pc) => pc' = "wait_prove"
          /\ (pc = "wait_prove" /\ pc' # pc) => pc' = "init_resp"
          /\ (pc = "init_resp" /\ pc' # pc) => pc' = "open"]_vars

C2_Witness ==
    /\ pc = "open"
    /\ witnessGenerateResp = <<127>>
    /\ proofGenerateResp = <<1>>
    /\ calls = <<WitnessCmd, ProveCmd>>

(* C3: when proof.json does not exist as the flattener is reached, the run *)
(* ends in a file-access fault and has printed nothing; a fault happens    *)
(* only so, after both commands have returned.                             *)
C3_MissingProofFaults ==
    /\ ~proofJson.exists => (pc \notin {"iterate", "print", "done"} /\ stdout = <<>>)
    /\ pc = "fault" => /\ ~proofJson.exists
                       /\ stdout = <<>>
                       /\ witnessProc = "exited"
                       /\ proofProc = "exited"

C3_Witness ==
    /\ pc = "fault"
    /\ ~proofJson.exists
    /\ proofGenerateResp = <<1>>
    /\ stdout = <<>>

(* C4: the flattened string is, for the lines longer than 25 as read, in   *)
(* file order and for no other line, the line without its spaces, commas,  *)
(* tabs and quotes, followed by one comma: tokens joined by commas, with a *)
(* trailing comma, and nothing around them.                                *)
C4_TokensInOrder ==
    pc \in {"print", "done"} =>
        LET tokens == [i \in DOMAIN LongItems |-> Token(LongItems[i])]
        IN  /\ respStr = JoinTrailing(tokens)
            /\ Count(respStr, COMMA) = Len(LongItems)
            /\ pc = "done" => Printed = JoinTrailing(tokens)

C4_Witness ==
    /\ pc = "done"
    /\ Len(LongItems) = 2
    /\ Token(LongItems[1]) # Token(LongItems[2])
    /\ Len(Token(LongItems[1])) < Len(LongItems[1])
    /\ Count(Printed, COMMA) = 2

(* C5: the token of a line longer than the threshold holds no space,       *)
(* comma, tab, double quote, carriage return or line feed, and is followed *)
(* by a comma: the printed string holds none of these characters but the   *)
(* commas that end the tokens.                                             *)
C5_TokensClean ==
    pc = "done" =>
        /\ \A i \in 1..Len(Printed) : Printed[i] \notin {SP, TAB, QUOTE, CR, LF}
        /\ Count(Printed, COMMA) = Len(LongItems)

(* C6: a run over a readable document prints exactly one line: the only    *)
(* line break on standard output is the one that ends it.                  *)
C6_OneLine ==
    pc = "done" =>
        /\ Count(stdout, LF) = 1
        /\ stdout[Len(stdout)] = LF

(* C7, as stated: a line of exactly 25 characters (its terminator not      *)
(* counted) contributes nothing, a line of 26 characters one token.        *)
C7_AsStated ==
    [][(pc = "iterate" /\ file.lines # <<>>) =>
          LET item == Head(file.lines)
          IN  /\ LineChars(item) = Threshold => respStr' = respStr
              /\ LineChars(item) = Threshold + 1 =>
                     Count(respStr', COMMA) = Count(respStr, COMMA) + 1]_vars

(* C7, amended: the length compared is that of the line as read, its line  *)
(* terminator counted as one character.  A line of that length 25 or less  *)
(* contributes nothing, a line of that length 26 or more exactly one token *)
(* (so a line of 25 characters plus a line break is included).             *)
C7_Boundary ==
    [][(pc = "iterate" /\ file.lines # <<>>) =>
          LET item == Head(file.lines)
          IN  /\ Len(item) <= Threshold => respStr' = respStr
              /\ Len(item) >= Threshold + 1 =>
                     /\ Count(respStr', COMMA) = Count(respStr, COMMA) + 1
                     /\ Len(respStr') > Len(respStr)
                     /\ SubSeq(respStr', 1, Len(respStr)) = respStr
                     /\ respStr'[Len(respStr')] = COMMA
              /\ LineChars(item) = Threshold /\ Len(item) = Threshold + 1 =>
                     respStr' # respStr]_vars

C7_Witness ==
    /\ pc = "print"
    /\ Len(Items) = 2
    /\ Len(Items[1]) = Threshold + 1
    /\ LineChars(Items[1]) = Threshold
    /\ Len(Items[2]) = Threshold
    /\ Count(respStr, COMMA) = 1

(* C8: when proof.json exists and none of its lines is longer than the     *)
(* threshold as read, there is no fault and the flattened string is empty: *)
(* the run prints the empty string and ends.                               *)
C8_NoLongLineEmpty ==
    (proofJson.exists /\ LongItems = <<>>) =>
        /\ pc # "fault"
        /\ pc \in {"iterate", "print", "done"} => respStr = <<>>
        /\ pc = "done" => (Printed = <<>> /\ stdout = <<LF>>)

C8_Witness ==
    /\ pc = "done"
    /\ proofJson.exists
    /\ Len(Items) = 2
    /\ \E i \in 1..2 : Len(Items[i]) = Threshold
    /\ LongItems = <<>>
    /\ stdout = <<LF>>

(* C9: the flattener leaves proof.json as it is, and two runs over the     *)
(* same document print the same: the output depends on the document only.  *)
C9_Idempotent ==
    /\ [](\A i, j \in DOMAIN history :
             history[i].doc = history[j].doc => history[i].out = history[j].out)
    /\ [][(pc \in {"init_resp", "open", "iterate", "print"}) => (proofJson' = proofJson)]_vars

C9_Witness ==
    /\ Len(history) = 2
    /\ history[1].doc = history[2].doc
    /\ Count(history[1].out, COMMA) = 2
    /\ pc = "done"

(* C10: the calls block without timeout: as long as the witness process    *)
(* has not exited the proving command is not started, and as long as       *)
(* either process has not exited proof.json is not opened and nothing is   *)
(* printed.                                                                *)
C10_Blocking ==
    /\ witnessProc # "exited" =>
           /\ pc \in {"call_witness", "wait_witness"}
           /\ proofProc = "not_started"
           /\ ProveCmd \notin {calls[i] : i \in DOMAIN calls}
    /\ proofProc # "exited" =>
           /\ pc \in {"call_witness", "wait_witness", "call_prove", "wait_prove"}
           /\ ~file.open
           /\ respStr = Unbound
           /\ stdout = <<>>

C10_Witness ==
    /\ pc = "wait_prove"
    /\ proofProc = "running"
    /\ witnessProc = "exited"
    /\ stdout = <<>>

====
